---- MODULE Spec2Model ----
(***************************************************************************)
(* Model of the ACPI action dispatcher of tjtools                          *)
(* (scripts/acpi_action.py and the handlers in acpi_actions/).             *)
(*                                                                         *)
(* Every step of the model is one call of an entry point: either the       *)
(* dispatcher main(args) or one of the handle_event functions of the       *)
(* acpi_actions package.  The slot files under /run persist between calls; *)
(* everything else is local to a call and is recorded for the call that    *)
(* ran last.                                                               *)
(***************************************************************************)
EXTENDS Integers, Sequences, FiniteSets, TLC

(***************************************************************************)
(* Bounds of the model.                                                    *)
(***************************************************************************)

\* The clock values a call can observe are EpochMs, EpochMs + 1 and
\* EpochMs + k * max_delay for k in 1..MaxEpoch.
MaxEpoch == 1

\* The earliest clock value of the model, in milliseconds.
EpochMs == 65000

\* The length in bytes of an oversized slot file.
OversizeLen == 9

(***************************************************************************)
(* Program constants.                                                      *)
(***************************************************************************)

max_delay == 2400

valid_power_button == "PBTN"
valid_sleep_button == "SBTN"
valid_lid_button == "LID"

\* Python's None, as an argument or as a field of the configuration.
None == "<None>"

\* last_time = None
NoTime == -1

\* The slot files /run/acpi_powerbutton, /run/acpi_sleepbutton and
\* /run/acpi_acadapter.
state_power_button == "power"
state_sleep_button == "sleep"
state_file == "ac"
Slots == {state_power_button, state_sleep_button, state_file}

\* int(time() * 1000.0)
Times ==
    {EpochMs, EpochMs + 1} \cup {EpochMs + k * max_delay : k \in 1..MaxEpoch}

(***************************************************************************)
(* Integers as bytes.                                                      *)
(***************************************************************************)

RECURSIVE bit_length(_)
bit_length(v) == IF v = 0 THEN 0 ELSE 1 + bit_length(v \div 2)

RECURSIVE Pow256(_)
Pow256(i) == IF i = 0 THEN 1 ELSE 256 * Pow256(i - 1)

\* v.to_bytes(n, byteorder='little'); the callers pass an n that v fits in.
to_bytes(v, n) == [i \in 1..n |-> (v \div Pow256(i - 1)) % 256]

RECURSIVE from_bytes(_)
\* int.from_bytes(b, byteorder='little')
from_bytes(b) ==
    IF Len(b) = 0 THEN 0 ELSE Head(b) + 256 * from_bytes(Tail(b))

\* A length of four bytes, whatever the value.
byte_length_wide(v) == 4

\* The length the handlers pass to to_bytes.
byte_length(v) == (bit_length(v) + 7) \div 8

(***************************************************************************)
(* State.                                                                  *)
(***************************************************************************)

VARIABLES
    slot,      \* the slot files: slot[s].exists, slot[s].data
    call,      \* the call that ran last: its entry point, its inputs, the slot
               \* files as it found them and the branch it took
    effects,   \* what the last call did, in order
    result,    \* how the last call ended: a return code or an exception
    prev,      \* the double-press that the call before the last one was, if any
    procs,     \* two concurrent runs of _power_button: where each one is
    backlight  \* the backlight node and the state file of the brightness tool

vars == <<slot, call, effects, result, prev, procs, backlight>>

\* No concurrent runs, and no backlight in sight.
NoProcs == <<>>
NoBacklight == <<>>

Absent == [exists |-> FALSE, data |-> <<>>]

Eff(op, arg, data) == [op |-> op, arg |-> arg, data |-> data]

NoExc == "-"

\* The outcomes of an external collaborator (compositor IPC, D-Bus,
\* notifier): it returns, raises RuntimeError or raises another exception.
CollabOutcomes == {"ok", "RuntimeError", "Exception"}

\* write_bytes returns, fails to open the file, or fails after it has
\* truncated the file.
WriteFaults == {"ok", "eopen", "ewrite"}

(***************************************************************************)
(* Slot files.                                                             *)
(***************************************************************************)

\* try: int.from_bytes(path.read_bytes(), byteorder='little')
\* except Exception: None
read_time(s, name) ==
    IF s[name].exists THEN from_bytes(s[name].data) ELSE NoTime

\* path.write_bytes(data)
write_bytes(s, name, data, fault) ==
    CASE fault = "ok" ->
            [slot |-> [s EXCEPT ![name] = [exists |-> TRUE, data |-> data]],
             exc |-> NoExc,
             eff |-> <<Eff("slot_write", name, data)>>]
      [] fault = "eopen" ->
            [slot |-> s, exc |-> "OSError",
             eff |-> <<Eff("slot_write_error", name, <<>>)>>]
      [] OTHER ->
            [slot |-> [s EXCEPT ![name] = [exists |-> TRUE, data |-> <<>>]],
             exc |-> "OSError",
             eff |-> <<Eff("slot_write_error", name, <<>>)>>]

(***************************************************************************)
(* acpi_actions/button.py                                                  *)
(***************************************************************************)

\* A collaborator call: blank_screen(None), _poweroff_system() or
\* _suspend_system().
Collab(name, outcome) ==
    [eff |-> <<Eff(name, "", <<>>)>>,
     exc |-> IF outcome = "ok" THEN NoExc ELSE outcome]

Abs(x) == IF x < 0 THEN -x ELSE x

\* The comparison with <= for <.
within_delay_inclusive(cur_time, last_time) ==
    Abs(cur_time - last_time) <= max_delay

\* abs(cur_time - last_time) < _max_delay
within_delay(cur_time, last_time) == Abs(cur_time - last_time) < max_delay

\* What a button function hands back: the slots, the effects, the exception
\* it raised (or NoExc), the branch it took and the time it read.
ButtonOut(s, eff, exc, class, last) ==
    [slot |-> s, eff |-> eff, exc |-> exc, class |-> class, last |-> last]

\* _power_button's branches with a first press taken for a double-press.
power_action_first_off(cur_time, last_time, env) ==
    IF last_time = NoTime \/ Abs(cur_time - last_time) < max_delay
    THEN [class |-> "double", c |-> Collab("poweroff", env.collab)]
    ELSE [class |-> "single", c |-> Collab("blank_screen", env.collab)]

\* _power_button's branches with the screen left alone once a press is on
\* record.
power_action_no_blank(cur_time, last_time, env) ==
    IF last_time = NoTime
    THEN [class |-> "single", c |-> Collab("blank_screen", env.collab)]
    ELSE IF Abs(cur_time - last_time) < max_delay
    THEN [class |-> "double", c |-> Collab("poweroff", env.collab)]
    ELSE [class |-> "single", c |-> [eff |-> <<>>, exc |-> NoExc]]

\* The branches of _power_button after the slot write: the branch taken and
\* the collaborator call it makes.
power_action(cur_time, last_time, env) ==
    IF last_time = NoTime
    THEN [class |-> "single", c |-> Collab("blank_screen", env.collab)]
    ELSE IF within_delay(cur_time, last_time)
    THEN [class |-> "double", c |-> Collab("poweroff", env.collab)]
    ELSE [class |-> "single", c |-> Collab("blank_screen", env.collab)]

\* The branches of _sleep_button after the slot write.
sleep_action(cur_time, last_time, env) ==
    IF last_time = NoTime
    THEN [class |-> "single", c |-> [eff |-> <<>>, exc |-> NoExc]]
    ELSE IF within_delay(cur_time, last_time)
    THEN [class |-> "double", c |-> Collab("suspend", env.collab)]
    ELSE [class |-> "single", c |-> [eff |-> <<>>, exc |-> NoExc]]

\* _power_button with the slot written on the single-press branches only.
power_button_write_single(device, s, env) ==
    IF device # valid_power_button
    THEN ButtonOut(s, <<>>, NoExc, "none", NoTime)
    ELSE
        LET last_time == read_time(s, state_power_button)
            cur_time == env.now
            state_bytes == to_bytes(cur_time, byte_length(cur_time))
            act == power_action(cur_time, last_time, env)
            wr == IF act.class = "double"
                  THEN [slot |-> s, exc |-> NoExc, eff |-> <<>>]
                  ELSE write_bytes(s, state_power_button, state_bytes,
                                   env.wfault)
            e1 == <<Eff("slot_read", state_power_button, <<>>)>> \o wr.eff
        IN  IF wr.exc # NoExc
            THEN ButtonOut(wr.slot, e1, wr.exc, "none", last_time)
            ELSE ButtonOut(wr.slot, e1 \o act.c.eff, act.c.exc, act.class,
                           last_time)

power_button(device, s, env) ==
    IF device # valid_power_button
    THEN ButtonOut(s, <<>>, NoExc, "none", NoTime)
    ELSE
        LET last_time == read_time(s, state_power_button)
            cur_time == env.now
            state_bytes == to_bytes(cur_time, byte_length(cur_time))
            wr == write_bytes(s, state_power_button, state_bytes, env.wfault)
            e1 == <<Eff("slot_read", state_power_button, <<>>)>> \o wr.eff
            act == power_action(cur_time, last_time, env)
        IN  IF wr.exc # NoExc
            THEN ButtonOut(wr.slot, e1, wr.exc, "none", last_time)
            ELSE ButtonOut(wr.slot, e1 \o act.c.eff, act.c.exc, act.class,
                           last_time)

\* _sleep_button with the slot written after the test for a first press.
sleep_button_late_write(device, s, env) ==
    IF device # valid_sleep_button
    THEN ButtonOut(s, <<>>, NoExc, "none", NoTime)
    ELSE
        LET last_time == read_time(s, state_sleep_button)
            cur_time == env.now
            state_bytes == to_bytes(cur_time, byte_length(cur_time))
            wr == write_bytes(s, state_sleep_button, state_bytes, env.wfault)
            e0 == <<Eff("slot_read", state_sleep_button, <<>>)>>
            act == sleep_action(cur_time, last_time, env)
        IN  IF last_time = NoTime
            THEN ButtonOut(s, e0, NoExc, "single", last_time)
            ELSE IF wr.exc # NoExc
            THEN ButtonOut(wr.slot, e0 \o wr.eff, wr.exc, "none", last_time)
            ELSE ButtonOut(wr.slot, e0 \o wr.eff \o act.c.eff, act.c.exc,
                           act.class, last_time)

sleep_button(device, s, env) ==
    IF device # valid_sleep_button
    THEN ButtonOut(s, <<>>, NoExc, "none", NoTime)
    ELSE
        LET last_time == read_time(s, state_sleep_button)
            cur_time == env.now
            state_bytes == to_bytes(cur_time, byte_length(cur_time))
            wr == write_bytes(s, state_sleep_button, state_bytes, env.wfault)
            e1 == <<Eff("slot_read", state_sleep_button, <<>>)>> \o wr.eff
            act == sleep_action(cur_time, last_time, env)
        IN  IF wr.exc # NoExc
            THEN ButtonOut(wr.slot, e1, wr.exc, "none", last_time)
            ELSE ButtonOut(wr.slot, e1 \o act.c.eff, act.c.exc, act.class,
                           last_time)

lid_button(device, identifier, s) ==
    IF device # valid_lid_button
    THEN ButtonOut(s, <<>>, "RuntimeError", "none", NoTime)
    ELSE IF identifier \notin {"open", "close"}
    THEN ButtonOut(s, <<>>, "RuntimeError", "none", NoTime)
    ELSE ButtonOut(s, <<>>, NoExc, "none", NoTime)

volume_button(device, identifier, s) ==
    IF device # "00000080"
    THEN ButtonOut(s, <<>>, "RuntimeError", "none", NoTime)
    ELSE ButtonOut(s, <<>>, NoExc, "none", NoTime)

\* str.lower() on the device strings of the model.
Lower(str) ==
    CASE str = "UP" -> "up"
      [] str = "PBTN" -> "pbtn"
      [] str = "SBTN" -> "sbtn"
      [] str = "LID" -> "lid"
      [] OTHER -> str

direction_pad(device, s) ==
    IF device = None
    THEN ButtonOut(s, <<>>, "AttributeError", "none", NoTime)
    ELSE IF Lower(device) \in {"up", "down", "left", "right"}
    THEN ButtonOut(s, <<>>, NoExc, "none", NoTime)
    ELSE IF device # "00000080"
    THEN ButtonOut(s, <<>>, "RuntimeError", "none", NoTime)
    ELSE ButtonOut(s, <<>>, NoExc, "none", NoTime)

\* What a handle_event hands back: code is the return value, and means
\* nothing when exc is an exception that left the function.
HandlerOut(s, eff, exc, code, class, last) ==
    [slot |-> s, eff |-> eff, exc |-> exc, code |-> code,
     class |-> class, last |-> last]

LogError(subsystem) == Eff("log_error", subsystem, <<>>)

\* The try/except RuntimeError around the button functions.
ButtonCatch(r) ==
    IF r.exc = "RuntimeError"
    THEN HandlerOut(r.slot, r.eff \o <<LogError("button")>>, NoExc, 3,
                    r.class, r.last)
    ELSE IF r.exc # NoExc
    THEN HandlerOut(r.slot, r.eff, r.exc, -1, r.class, r.last)
    ELSE HandlerOut(r.slot, r.eff, NoExc, 0, r.class, r.last)

\* button.handle_event(lg, action, device, identifier)
button_handle_event(action, device, identifier, s, env) ==
    IF action = "power" THEN ButtonCatch(power_button(device, s, env))
    ELSE IF action = "sleep" THEN ButtonCatch(sleep_button(device, s, env))
    ELSE IF action = "lid" THEN ButtonCatch(lid_button(device, identifier, s))
    ELSE IF action \in {"volumedown", "volumeup"}
    THEN ButtonCatch(volume_button(device, identifier, s))
    ELSE IF action \in {"up", "down", "left", "right"}
    THEN ButtonCatch(direction_pad(device, s))
    ELSE HandlerOut(s, <<LogError("button")>>, NoExc, 2, "none", NoTime)

(***************************************************************************)
(* acpi_actions/common.py: the configuration.                              *)
(***************************************************************************)

\* The values of the JSON configuration file.
JStr(x) == [t |-> "str", s |-> x, n |-> 0]
JInt(x) == [t |-> "int", s |-> "", n |-> x]
JNull == [t |-> "null", s |-> "", n |-> 0]

\* ActionConfig._entries
entries ==
    <<"notify-user", "ac-adapter-sysfs", "ac-adapter-device",
      "battery-device", "wmi-device", "power-button", "sleep-button",
      "lid-button", "brightness-modifier">>

\* The fields of the dataclass ActionConfig, in the order of its constructor.
ActionConfigFields ==
    <<"notify_user", "ac_adapter_sysfs", "ac_adapter_device",
      "battery_device", "wmi_device", "power_button", "sleep_button",
      "lid_button", "brightness_modifier">>

NoConfig == [i \in {} |-> JNull]

\* ActionConfig(*args): the generated constructor binds the positional
\* arguments to the fields in order and raises TypeError when their number
\* is not the number of fields.
ActionConfig(args) ==
    IF Len(args) # Len(ActionConfigFields)
    THEN [exc |-> "TypeError", cfg |-> NoConfig]
    ELSE [exc |-> NoExc,
          cfg |-> [f \in {ActionConfigFields[i] : i \in 1..Len(ActionConfigFields)}
                     |-> args[CHOOSE i \in 1..Len(ActionConfigFields) :
                                  ActionConfigFields[i] = f]]]

\* A failed load that leaves a partly filled configuration behind.
LoadError_partial(exc) == [exc |-> exc, cfg |-> [notify_user |-> JNull]]

\* raise ...: the load hands back no configuration.
LoadError(exc) == [exc |-> exc, cfg |-> NoConfig]

\* ActionConfig.from_path(path), on a file that is missing (is_file false),
\* is not JSON (well_formed false), or holds the JSON object data.
from_path(file) ==
    IF ~file.is_file THEN LoadError("RuntimeError")
    ELSE IF ~file.well_formed THEN LoadError("ValueError")
    ELSE IF \E i \in 1..Len(entries) : entries[i] \notin DOMAIN file.data
    THEN LoadError("RuntimeError")
    ELSE
        LET config_data == file.data
            notify_user == config_data["notify-user"]
            ac_adapter_sysfs == config_data["ac-adapter-sysfs"]
            ac_adapter_device == config_data["ac-adapter-device"]
            battery_device == config_data["battery-device"]
            wmi_device == config_data["wmi-device"]
            power_button_id == config_data["power-button"]
            sleep_button_id == config_data["sleep-button"]
            lid_button_id == config_data["lid-button"]
            string_vals == <<notify_user, ac_adapter_sysfs, ac_adapter_device,
                             battery_device, power_button_id, sleep_button_id,
                             lid_button_id>>
            brightness_modifier == config_data["brightness-modifier"]
        IN  IF \E i \in 1..Len(string_vals) :
                   string_vals[i].t # "str" /\ string_vals[i].t # "null"
            THEN LoadError("RuntimeError")
            ELSE IF /\ (brightness_modifier.t # "int" \/ brightness_modifier.n <= 0)
                    /\ brightness_modifier.t # "null"
            THEN LoadError("RuntimeError")
            ELSE ActionConfig(<<notify_user, ac_adapter_sysfs,
                                ac_adapter_device, battery_device,
                                power_button_id, sleep_button_id,
                                lid_button_id, brightness_modifier>>)

\* device == cfg.field, for a device that is a string or None.
PyEq(str, j) ==
    IF str = None THEN j.t = "null" ELSE j.t = "str" /\ j.s = str

(***************************************************************************)
(* acpi_actions/common.py: the brightness daemon's client.                 *)
(***************************************************************************)

\* CommandType
SetState == 0
ModifyState == 1
SaveState == 2
RestoreState == 3
SetPowersave == 4

\* sizeof(ModifyStateFrame): packed uint8, uint8, int32.
ModifyStateFrameSize == 6

\* sizeof(SimpleCommandFrame): packed uint8, uint8.
SimpleCommandFrameSize == 2

\* The frame with the value cut to its three low bytes.
ModifyStateFrame_serialize_short(type, len, value) ==
    <<type % 256, len % 256>> \o to_bytes(value, 3) \o <<0>>

\* ModifyStateFrame.serialize(): type, len and value as a little-endian
\* 32 bit two's complement integer.
ModifyStateFrame_serialize(type, len, value) ==
    <<type % 256, len % 256>> \o to_bytes(value, 4)

\* SimpleCommandFrame.serialize() copies sizeof(ModifyStateFrame) bytes out
\* of a structure that has only sizeof(SimpleCommandFrame): the bytes after
\* type and len are whatever memory follows the structure (env.tail).
SimpleCommandFrame_serialize(type, len, tail) ==
    <<type % 256, len % 256>>
        \o SubSeq(tail, 1, ModifyStateFrameSize - SimpleCommandFrameSize)

\* The brightness daemon as a call finds it: its configuration file cannot
\* be read ("noconf"), the socket path is absent or no socket ("nosocket"),
\* connect fails ("refused"), sendall fails ("sendfail"), or all is well.
DaemonStates == {"ok", "nosocket", "noconf", "refused", "sendfail"}

\* The memory after a SimpleCommandFrame.
Tails == {<<0, 0, 0, 0>>, <<7, 0, 255, 1>>}

\* BrightnessControl(): the client, or the exception of the constructor.
BrightnessControl(env) ==
    CASE env.daemon = "noconf" -> [exc |-> "OSError", client |-> FALSE]
      [] env.daemon = "nosocket" -> [exc |-> NoExc, client |-> FALSE]
      [] env.daemon = "refused" -> [exc |-> "OSError", client |-> FALSE]
      [] OTHER -> [exc |-> NoExc, client |-> TRUE]

\* self.client.sendall(frame)
sendall(frame, env) ==
    IF env.daemon = "sendfail"
    THEN [exc |-> "OSError", eff |-> <<Eff("send_error", "", frame)>>]
    ELSE [exc |-> NoExc, eff |-> <<Eff("send", "", frame)>>]

\* BrightnessControl._simple_command(cmd_type)
simple_command(brctl, cmd_type, env) ==
    IF ~brctl.client THEN [exc |-> NoExc, eff |-> <<>>]
    ELSE sendall(SimpleCommandFrame_serialize(cmd_type, 0, env.tail), env)

\* BrightnessControl.modify_brightness(value)
modify_brightness(brctl, value, env) ==
    IF ~brctl.client THEN [exc |-> NoExc, eff |-> <<>>]
    ELSE sendall(ModifyStateFrame_serialize(ModifyState, 4, value), env)

\* Two statements in sequence: the second runs when the first raised nothing.
Then(a, b) ==
    IF a.exc # NoExc THEN [exc |-> a.exc, eff |-> a.eff]
    ELSE [exc |-> b.exc, eff |-> a.eff \o b.eff]

(***************************************************************************)
(* Conversions of the string arguments.                                    *)
(***************************************************************************)

\* int(x), on the arguments of the model: the integer, or the exception.
int(str) ==
    CASE str = None -> [exc |-> "TypeError", n |-> 0]
      [] str = "0" -> [exc |-> NoExc, n |-> 0]
      [] str = "1" -> [exc |-> NoExc, n |-> 1]
      [] str = "2" -> [exc |-> NoExc, n |-> 2]
      [] str = "00000000" -> [exc |-> NoExc, n |-> 0]
      [] str = "-200" -> [exc |-> NoExc, n |-> -200]
      [] str = "-40" -> [exc |-> NoExc, n |-> -40]
      [] str = "40" -> [exc |-> NoExc, n |-> 40]
      [] str = "200" -> [exc |-> NoExc, n |-> 200]
      [] OTHER -> [exc |-> "ValueError", n |-> 0]

\* int(x, base=16), on the arguments of the model.
int16(str) ==
    CASE str = None -> [exc |-> "TypeError", n |-> 0]
      [] str = "0" -> [exc |-> NoExc, n |-> 0]
      [] str = "1" -> [exc |-> NoExc, n |-> 1]
      [] str = "2" -> [exc |-> NoExc, n |-> 2]
      [] str = "00000000" -> [exc |-> NoExc, n |-> 0]
      [] str = "000000d0" -> [exc |-> NoExc, n |-> 208]
      [] OTHER -> [exc |-> "ValueError", n |-> 0]

(***************************************************************************)
(* acpi_actions/ac_adapter.py                                              *)
(***************************************************************************)

\* _write_state writing the power button's file whatever the path.
write_state_power(s, name, state, fault) ==
    write_bytes(s, state_power_button, to_bytes(state, byte_length(state)),
                fault)

\* _write_state(path, state)
write_state(s, name, state, fault) ==
    write_bytes(s, name, to_bytes(state, byte_length(state)), fault)

\* The notifier: sudo --user=<user> notify_wrapper <source> <message> <icon>,
\* run with check=True.
prun_notify(source, msg, env) ==
    IF env.collab = "ok"
    THEN [exc |-> NoExc, eff |-> <<Eff("notify", source \o ": " \o msg, <<>>)>>]
    ELSE [exc |-> "Exception", eff |-> <<Eff("notify_error", source, <<>>)>>]

\* ac_adapter._exec_notify(cfg, msg), called with the positional arguments
\* args: TypeError when they are not two.
ac_exec_notify(args, env) ==
    IF Len(args) # 2 THEN [exc |-> "TypeError", eff |-> <<>>]
    ELSE prun_notify("AC adapter", "Status: " \o args[2], env)

\* The brightness commands of an adapter state, inside their try/except.
ac_brightness(state, env) ==
    LET brctl == BrightnessControl(env)
        cmds ==
            IF brctl.exc # NoExc THEN [exc |-> brctl.exc, eff |-> <<>>]
            ELSE IF state = 0
            THEN Then(simple_command(brctl, SaveState, env),
                      simple_command(brctl, SetPowersave, env))
            ELSE simple_command(brctl, RestoreState, env)
    IN  IF cmds.exc # NoExc
        THEN cmds.eff \o <<LogError("AC adapter")>>
        ELSE cmds.eff

\* ac_adapter.handle_event(lg, cfg, device, identifier)
ac_adapter_handle_event(cfg, device, identifier, s, env) ==
    IF ~PyEq(device, cfg.ac_adapter_device)
    THEN HandlerOut(s, <<LogError("AC adapter")>>, NoExc, 1, "none", NoTime)
    ELSE
        LET parsed == int(identifier)
            state == parsed.n
        IN  IF parsed.exc = "ValueError"
            THEN HandlerOut(s, <<LogError("AC adapter")>>, NoExc, 2,
                            "none", NoTime)
            ELSE IF parsed.exc # NoExc
            THEN HandlerOut(s, <<>>, parsed.exc, -1, "none", NoTime)
            ELSE IF state # 0 /\ state # 1
            THEN HandlerOut(s, <<LogError("AC adapter")>>, NoExc, 3,
                            "none", NoTime)
            ELSE
                LET msg == IF state = 0 THEN "unplugged" ELSE "plugged in"
                    e1 == ac_brightness(state, env)
                    wr == write_state(s, state_file, state, env.wfault)
                    nt == ac_exec_notify(<<msg>>, env)
                IN  IF wr.exc # NoExc
                    THEN HandlerOut(wr.slot,
                                    e1 \o wr.eff \o <<LogError("AC adapter")>>,
                                    NoExc, 4, "none", NoTime)
                    ELSE IF nt.exc # NoExc
                    THEN HandlerOut(wr.slot,
                                    e1 \o wr.eff \o nt.eff
                                       \o <<LogError("AC adapter")>>,
                                    NoExc, 5, "none", NoTime)
                    ELSE HandlerOut(wr.slot, e1 \o wr.eff \o nt.eff,
                                    NoExc, 0, "none", NoTime)

(***************************************************************************)
(* acpi_actions/battery.py, jack.py, thermal_zone.py                       *)
(***************************************************************************)

LogInfo(subsystem) == Eff("log_info", subsystem, <<>>)

\* battery.handle_event without the test of the device.
battery_handle_event_unchecked(cfg, device, identifier, value, s) ==
    HandlerOut(s, <<Eff("log_info", "battery", <<>>),
                    Eff("log_info", "battery", <<>>)>>, NoExc, 0,
               "none", NoTime)

\* battery.handle_event(lg, cfg, device, identifier, value)
battery_handle_event(cfg, device, identifier, value, s) ==
    IF ~PyEq(device, cfg.battery_device)
    THEN HandlerOut(s, <<LogError("battery")>>, NoExc, 1, "none", NoTime)
    ELSE HandlerOut(s, <<LogInfo("battery"), LogInfo("battery")>>, NoExc, 0,
                    "none", NoTime)

\* f'{x}' of an argument that is a string or None.
Format(str) == IF str = None THEN "None" ELSE str

\* jack.handle_event(lg, cfg, action, identifier)
jack_handle_event(cfg, action, identifier, s, env) ==
    LET known == action \in {"headphone", "videoout", "lineout"}
        msg_device ==
            CASE action = "headphone" -> "Headphones"
              [] action = "videoout" -> "Video output"
              [] OTHER -> "Line out"
        nt == prun_notify(msg_device,
                          "Status: " \o Format(identifier) \o "ged", env)
    IN  IF ~known
        THEN HandlerOut(s, <<LogError("jack")>>, NoExc, 1, "none", NoTime)
        ELSE IF nt.exc # NoExc
        THEN HandlerOut(s, nt.eff \o <<LogError("jack")>>, NoExc, 1,
                        "none", NoTime)
        ELSE HandlerOut(s, nt.eff, NoExc, 0, "none", NoTime)

\* thermal_zone.handle_event(lg, cfg, action, device, identifier, value)
thermal_zone_handle_event(cfg, action, device, identifier, value, s) ==
    HandlerOut(s, <<LogInfo("thermal zone"), LogInfo("thermal zone")>>,
               NoExc, 0, "none", NoTime)

(***************************************************************************)
(* acpi_actions/video.py                                                   *)
(***************************************************************************)

\* _modify_brightness with an absent socket treated as an error.
video_modify_brightness_strict(value, env) ==
    CASE env.daemon \in {"noconf", "nosocket", "refused"} ->
            [exc |-> "OSError", eff |-> <<>>]
      [] value.t # "int" -> [exc |-> "TypeError", eff |-> <<>>]
      [] OTHER ->
            sendall(ModifyStateFrame_serialize(ModifyState, 4, value.n), env)

\* video._modify_brightness(value); value is a configuration value, and
\* frame.value = value raises TypeError when it is no integer.
video_modify_brightness(value, env) ==
    CASE env.daemon = "noconf" -> [exc |-> "OSError", eff |-> <<>>]
      [] env.daemon = "nosocket" -> [exc |-> NoExc, eff |-> <<>>]
      [] env.daemon = "refused" -> [exc |-> "OSError", eff |-> <<>>]
      [] value.t # "int" -> [exc |-> "TypeError", eff |-> <<>>]
      [] OTHER ->
            sendall(ModifyStateFrame_serialize(ModifyState, 4, value.n), env)

\* video.handle_event(lg, cfg, action, device)
video_handle_event(cfg, action, device, s, env) ==
    LET down == action = "brightnessdown" /\ device = "BRTDN"
        up == action = "brightnessup" /\ device = "BRTUP"
        modifier == cfg.brightness_modifier
        value == IF down THEN JInt(-modifier.n) ELSE modifier
        mb == video_modify_brightness(value, env)
    IN  IF ~down /\ ~up
        THEN HandlerOut(s, <<LogError("video")>>, NoExc, 1, "none", NoTime)
        ELSE IF down /\ modifier.t # "int"
        THEN HandlerOut(s, <<>>, "TypeError", -1, "none", NoTime)
        ELSE IF mb.exc # NoExc
        THEN HandlerOut(s, mb.eff \o <<LogError("video")>>, NoExc, 2,
                        "none", NoTime)
        ELSE HandlerOut(s, mb.eff, NoExc, 0, "none", NoTime)

(***************************************************************************)
(* acpi_actions/wmi.py                                                     *)
(***************************************************************************)

\* The identifier of the one WMI event the handler accepts (0xd0).
wmi_ident == 208

\* wmi.handle_event(lg, cfg, action, device, identifier, value)
wmi_handle_event(cfg, action, device, identifier, value, s) ==
    LET ident == int16(identifier)
        val == int16(value)
    IN  IF ident.exc # NoExc
        THEN HandlerOut(s, <<>>, ident.exc, -1, "none", NoTime)
        ELSE IF val.exc # NoExc
        THEN HandlerOut(s, <<>>, val.exc, -1, "none", NoTime)
        ELSE IF ~PyEq(device, cfg.wmi_device)
        THEN HandlerOut(s, <<LogError("WMI")>>, NoExc, 1, "none", NoTime)
        ELSE IF action # None \/ ident.n # wmi_ident \/ val.n # 0
        THEN HandlerOut(s, <<LogError("WMI")>>, NoExc, 2, "none", NoTime)
        ELSE HandlerOut(s, <<>>, NoExc, 0, "none", NoTime)

(***************************************************************************)
(* scripts/acpi_action.py                                                  *)
(***************************************************************************)

RECURSIVE Join(_)
\* The string that a sequence of pieces spells.
Join(pieces) == IF pieces = <<>> THEN "" ELSE Head(pieces) \o Join(Tail(pieces))

\* str.split('/', maxsplit=1), on a string given as its pieces: the slashes
\* and the text between them.
split1(pieces) ==
    LET at == {i \in 1..Len(pieces) : pieces[i] = "/"}
    IN  IF at = {} THEN <<Join(pieces)>>
        ELSE LET k == CHOOSE i \in at : \A j \in at : i <= j
             IN  <<Join(SubSeq(pieces, 1, k - 1)),
                   Join(SubSeq(pieces, k + 1, Len(pieces)))>>

\* A call of a handler with positional arguments: Python raises TypeError
\* when their number is not the number of the handler's parameters.
Bind(name, nparams, args, s, body) ==
    IF Len(args) # nparams
    THEN HandlerOut(s, <<>>, "TypeError", -1, "none", NoTime)
    ELSE [body EXCEPT !.eff = <<Eff("handler", name, <<>>)>> \o @]

\* What main hands back.
MainOut(r, handler, ev) ==
    [slot |-> r.slot, eff |-> r.eff, exc |-> r.exc, code |-> r.code,
     class |-> r.class, last |-> r.last, handler |-> handler, ev |-> ev]

NoEvent ==
    [group |-> None, action |-> None, device |-> None, identifier |-> None,
     value |-> None]

\* The test of the argument count with 1 for 2.
too_few_none(args) == Len(args) < 1

\* except RuntimeError for except Exception.
main_catches_runtime(exc) == exc = "RuntimeError"

\* if len(args) < 2: return 0
too_few(args) == Len(args) < 2

\* except Exception, around the load of the configuration.
main_catches(exc) == exc # NoExc

\* if ret != 0: return 3, else return 0
exit_status(ret) == IF ret # 0 THEN 3 ELSE 0

\* main(args): args[0] of the source is args[1] here.
main(args, file, s, env) ==
    IF too_few(args)
    THEN MainOut(HandlerOut(s, <<>>, NoExc, 0, "none", NoTime), "none", NoEvent)
    ELSE
        LET ld == from_path(file)
            e0 == <<Eff("from_path", "", <<>>)>>
            parts == split1(args[2])
            group == IF Len(parts) = 2 THEN parts[1] ELSE Join(args[2])
            action == IF Len(parts) = 2 THEN parts[2] ELSE None
            device == IF Len(args) > 2 THEN args[3] ELSE None
            identifier == IF Len(args) > 3 THEN args[4] ELSE None
            value == IF Len(args) > 4 THEN args[5] ELSE None
            config == ld.cfg
            ev == [group |-> group, action |-> action, device |-> device,
                   identifier |-> identifier, value |-> value]
            known == group \in {"ac_adapter", "battery", "button", "jack",
                                "thermal_zone", "video"}
            ret ==
                CASE group = "ac_adapter" ->
                        Bind(group, 4, <<"lg", config, device, value>>, s,
                             ac_adapter_handle_event(config, device, value,
                                                     s, env))
                  [] group = "battery" ->
                        Bind(group, 5,
                             <<"lg", config, device, identifier, value>>, s,
                             battery_handle_event(config, device, identifier,
                                                  value, s))
                  [] group = "button" ->
                        Bind(group, 4,
                             <<"lg", config, action, device, identifier>>, s,
                             button_handle_event(action, device, identifier,
                                                 s, env))
                  [] group = "jack" ->
                        Bind(group, 4, <<"lg", config, action, identifier>>, s,
                             jack_handle_event(config, action, identifier,
                                               s, env))
                  [] group = "thermal_zone" ->
                        Bind(group, 6,
                             <<"lg", config, action, device, identifier,
                               value>>, s,
                             thermal_zone_handle_event(config, action, device,
                                                       identifier, value, s))
                  [] OTHER ->
                        Bind(group, 4, <<"lg", config, action, device>>, s,
                             video_handle_event(config, action, device,
                                                s, env))
        IN  IF ld.exc # NoExc /\ main_catches(ld.exc)
            THEN MainOut(HandlerOut(s, e0 \o <<LogError("main")>>, NoExc, 1,
                                    "none", NoTime), "none", NoEvent)
            ELSE IF ld.exc # NoExc
            THEN MainOut(HandlerOut(s, e0, ld.exc, -1, "none", NoTime),
                         "none", NoEvent)
            ELSE IF ~known
            THEN MainOut(HandlerOut(s, e0 \o <<LogError("main"),
                                               LogError("main")>>,
                                    NoExc, 2, "none", NoTime), "none", ev)
            ELSE IF ret.exc # NoExc
            THEN MainOut([ret EXCEPT !.eff = e0 \o @], group, ev)
            ELSE IF ret.code # 0
            THEN MainOut([ret EXCEPT !.eff = e0 \o @ \o <<LogError("main")>>,
                                     !.code = exit_status(ret.code)],
                         group, ev)
            ELSE MainOut([ret EXCEPT !.eff = e0 \o @,
                                     !.code = exit_status(ret.code)],
                         group, ev)

(***************************************************************************)
(* Inputs.                                                                 *)
(***************************************************************************)

\* Two configurations that name different devices.
GoodConfig ==
    [notify_user |-> JStr("tobias"), ac_adapter_sysfs |-> JStr("AC"),
     ac_adapter_device |-> JStr("ACAD"), battery_device |-> JStr("BAT0"),
     wmi_device |-> JStr("PNP0C14:00"), power_button |-> JStr("PBTN"),
     sleep_button |-> JStr("SBTN"), lid_button |-> JStr("LID"),
     brightness_modifier |-> JInt(15)]

AltConfig ==
    [notify_user |-> JStr("tobias"), ac_adapter_sysfs |-> JStr("ADP1"),
     ac_adapter_device |-> JStr("ACPI0003:00"), battery_device |-> JStr("BAT1"),
     wmi_device |-> JStr("PNP0C14:01"), power_button |-> JStr("LNXPWRBN:00"),
     sleep_button |-> JStr("LNXSLPBN:00"), lid_button |-> JStr("PNP0C0D:00"),
     brightness_modifier |-> JNull]

ActionConfigs == {GoodConfig, AltConfig}

\* A configuration file with every entry valid.
GoodData ==
    [k \in {entries[i] : i \in 1..Len(entries)} |->
        CASE k = "notify-user" -> JStr("tobias")
          [] k = "ac-adapter-sysfs" -> JStr("AC")
          [] k = "ac-adapter-device" -> JStr("ACAD")
          [] k = "battery-device" -> JStr("BAT0")
          [] k = "wmi-device" -> JStr("PNP0C14:00")
          [] k = "power-button" -> JStr("PBTN")
          [] k = "sleep-button" -> JStr("SBTN")
          [] k = "lid-button" -> JStr("LID")
          [] OTHER -> JInt(15)]

File(is_file, well_formed, data) ==
    [is_file |-> is_file, well_formed |-> well_formed, data |-> data]

GoodFile == File(TRUE, TRUE, GoodData)
MissingFile == File(FALSE, FALSE, GoodData)
MalformedFile == File(TRUE, FALSE, GoodData)
MissingKeyFile ==
    File(TRUE, TRUE,
         [k \in DOMAIN GoodData \ {"lid-button"} |-> GoodData[k]])
BadTypeFile ==
    File(TRUE, TRUE, [GoodData EXCEPT !["brightness-modifier"] = JInt(0)])

\* Files whose values pass the tests of from_path without being of the
\* documented types: null for a string, and a wmi-device that is no string.
NullUserFile ==
    File(TRUE, TRUE, [GoodData EXCEPT !["notify-user"] = JNull])
WmiIntFile ==
    File(TRUE, TRUE, [GoodData EXCEPT !["wmi-device"] = JInt(7)])
NullStepFile ==
    File(TRUE, TRUE, [GoodData EXCEPT !["brightness-modifier"] = JNull])

\* Files with a value that from_path rejects.
IntButtonFile ==
    File(TRUE, TRUE, [GoodData EXCEPT !["power-button"] = JInt(1)])
StrStepFile ==
    File(TRUE, TRUE, [GoodData EXCEPT !["brightness-modifier"] = JStr("15")])

\* The files that can be at /etc/acpi-actions.conf.
ConfigFiles ==
    {GoodFile, MissingFile, MalformedFile, MissingKeyFile, BadTypeFile,
     NullUserFile, WmiIntFile, NullStepFile, IntButtonFile, StrStepFile}

InvalidFiles == ConfigFiles \ {GoodFile}

Quiet ==
    [now |-> EpochMs, wfault |-> "ok", collab |-> "ok", daemon |-> "ok",
     tail |-> <<0, 0, 0, 0>>]

Envs ==
    [now : Times, wfault : WriteFaults, collab : CollabOutcomes,
     daemon : DaemonStates, tail : Tails]

\* The environments that differ from the quiet one only in the given fields.
EnvsOf(fields) ==
    {e \in Envs : \A f \in DOMAIN Quiet \ fields : e[f] = Quiet[f]}

\* The daemon matters to a call that may send, and the memory after a simple
\* frame only once a frame can be built.
DaemonEnvs(fields) ==
    {e \in EnvsOf(fields \cup {"daemon", "tail"}) :
        e.daemon \in {"ok", "sendfail"} \/ e.tail = Quiet.tail}

ButtonActions == {"power", "sleep", "lid", "volumeup", "up", "bogus", None}
Devices == {"PBTN", "SBTN", "LID", "00000080", "UP", "LNXPWRBN:00", None}
Identifiers == {"open", "bogus", None}

\* The button functions that read the clock, write a slot and may call a
\* collaborator.
ButtonUsesEnv(action, device) ==
    \/ action = "power" /\ device = valid_power_button
    \/ action = "sleep" /\ device = valid_sleep_button

\* The inputs of button.handle_event; a call that consults no part of the
\* environment is given the quiet one, and only a lid event an identifier.
ButtonInputs ==
    {i \in [action : ButtonActions, device : Devices,
            identifier : Identifiers,
            env : EnvsOf({"now", "wfault", "collab"})] :
        /\ ButtonUsesEnv(i.action, i.device) \/ i.env = Quiet
        /\ i.action = "lid" \/ i.identifier = None}

AcDevices == {"ACAD", "ACPI0003:00", None}
AcIdentifiers == {"0", "1", "2", "x", None}

AcInputs ==
    {i \in [cfg : ActionConfigs, device : AcDevices,
            identifier : AcIdentifiers,
            env : DaemonEnvs({"wfault", "collab"})] :
        \/ PyEq(i.device, i.cfg.ac_adapter_device)
              /\ i.identifier \in {"0", "1"}
              /\ i.env.collab # "RuntimeError"
        \/ i.env = Quiet}

BatteryInputs ==
    [cfg : ActionConfigs, device : {"BAT0", "BAT1", None},
     identifier : {"00000080"}, value : {"00000001"}]

JackInputs ==
    {i \in [cfg : {GoodConfig}, action : {"headphone", "lineout", "bogus", None},
            identifier : {"plug", "unplug", None},
            env : EnvsOf({"collab"})] :
        i.env.collab # "RuntimeError"}

ThermalInputs ==
    [cfg : {GoodConfig}, action : {None}, device : {"LNXTHERM:00", None},
     identifier : {"00000081"}, value : {"00000000"}]

VideoInputs ==
    {i \in [cfg : ActionConfigs,
            action : {"brightnessup", "brightnessdown", "bogus"},
            device : {"BRTUP", "BRTDN", None},
            env : DaemonEnvs({})] :
        i.env.tail = Quiet.tail}

\* What something other than the handlers can leave in a button's slot: the
\* bytes of a timestamp followed by zero bytes, OversizeLen bytes in all.
TamperData ==
    {[i \in 1..OversizeLen |->
        IF i <= byte_length(EpochMs)
        THEN to_bytes(EpochMs, byte_length(EpochMs))[i]
        ELSE 0]}

\* The ends and the middle of the range of c_int32.
MinInt32 == -2147483647 - 1
MaxInt32 == 2147483647

\* Arguments of _modify_brightness.
Deltas == {MinInt32, -65536, -256, -15, -1, 0, 1, 15, 255, 256, MaxInt32}

ModifyInputs == [value : Deltas, env : EnvsOf({"daemon"})]

WmiInputs ==
    [cfg : ActionConfigs, action : {None, "bogus"},
     device : {"PNP0C14:00", "PNP0C14:01", None},
     identifier : {"000000d0", "00000000", "zz", None},
     value : {"00000000", "1", None}]

\* The first argument of the dispatcher, as pieces.
FirstArgs ==
    {<<"button", "/", "power">>, <<"button", "/", "sleep">>,
     <<"button", "/", "lid">>, <<"ac_adapter">>, <<"battery">>,
     <<"jack", "/", "headphone">>, <<"thermal_zone">>,
     <<"video", "/", "brightnessup">>, <<"wmi">>, <<"processor">>,
     <<"bogus", "/", "a", "/", "b">>}

\* A device that the group of a first argument expects.
DeviceOf(g) ==
    CASE g[1] = "button" -> "PBTN"
      [] g[1] = "ac_adapter" -> "ACAD"
      [] g[1] = "battery" -> "BAT0"
      [] g[1] = "video" -> "BRTUP"
      [] g[1] = "wmi" -> "PNP0C14:00"
      [] OTHER -> "LNXTHERM:00"

\* A first argument with a device: the expected one or another.
FirstTwo ==
    {gd \in FirstArgs \X {"PBTN", "ACAD", "BAT0", "BRTUP", "PNP0C14:00",
                          "LNXTHERM:00", "WRONG"} :
        gd[2] \in {DeviceOf(gd[1]), "WRONG"}}

\* The argument lists of the dispatcher: none, the program name alone, and
\* the program name with one to four event arguments.
ArgLists ==
    {<<>>, <<"acpi_action">>}
        \cup {<<"acpi_action", g>> : g \in FirstArgs}
        \cup {<<"acpi_action", gd[1], gd[2]>> : gd \in FirstTwo}
        \cup {<<"acpi_action", gd[1], gd[2], "0">> : gd \in FirstTwo}
        \cup {<<"acpi_action", gd[1], gd[2], "000000d0", "0">> :
                 gd \in FirstTwo}

\* The inputs of main; a run that loads no configuration reaches no handler
\* and consults none of the environment.
MainInputs ==
    {i \in [args : ArgLists, file : ConfigFiles,
            env : EnvsOf({"now", "daemon"})] :
        \/ Len(i.args) >= 2 /\ from_path(i.file).exc = NoExc
        \/ i.env = Quiet}

(***************************************************************************)
(* Calls.  Each call is a process of its own: it starts when no call is    *)
(* running, and when it exits only the slot files are left of it.          *)
(***************************************************************************)

NoCall ==
    [kind |-> "none", args |-> <<>>, file |-> MissingFile, cfg |-> NoConfig,
     ev |-> NoEvent, env |-> Quiet, class |-> "none", last |-> NoTime,
     handler |-> "none", before |-> [s \in Slots |-> Absent]]

NoResult == [exc |-> NoExc, code |-> 0]

NoPress == [button |-> "none", now |-> NoTime, class |-> "none"]

\* A call seen from the call after it: the button, the time and the
\* classification of a press that found an earlier press less than
\* max_delay before it, and NoPress for any other call.
Summary(c) ==
    IF /\ c.handler = "button"
       /\ c.class # "none"
       /\ c.last # NoTime
       /\ c.last < c.env.now
       /\ c.env.now - c.last < max_delay
    THEN [button |-> c.ev.action, now |-> c.env.now, class |-> c.class]
    ELSE NoPress

Idle == call.kind = "none"

Init ==
    /\ slot = [s \in Slots |-> Absent]
    /\ call = NoCall
    /\ effects = <<>>
    /\ result = NoResult
    /\ prev = NoPress
    /\ procs = NoProcs
    /\ backlight = NoBacklight

\* The call `kind` with event ev in environment env has handed back r.
Called(kind, cfg, ev, env, r) ==
    /\ slot' = r.slot
    /\ effects' = r.eff
    /\ result' = [exc |-> r.exc, code |-> r.code]
    /\ call' = [kind |-> kind, args |-> <<>>, file |-> MissingFile,
                cfg |-> cfg, ev |-> ev, env |-> env, class |-> r.class,
                last |-> r.last, handler |-> kind, before |-> slot]
    /\ UNCHANGED <<prev, procs, backlight>>

Event(group, action, device, identifier, value) ==
    [group |-> group, action |-> action, device |-> device,
     identifier |-> identifier, value |-> value]

\* A direct call of button.handle_event.
ButtonEvent ==
    /\ Idle
    /\ \E i \in ButtonInputs :
        Called("button", NoConfig,
               Event("button", i.action, i.device, i.identifier, None), i.env,
               button_handle_event(i.action, i.device, i.identifier,
                                   slot, i.env))

\* A direct call of ac_adapter.handle_event.
AcAdapterEvent ==
    /\ Idle
    /\ \E i \in AcInputs :
        Called("ac_adapter", i.cfg,
               Event("ac_adapter", None, i.device, i.identifier, None), i.env,
               ac_adapter_handle_event(i.cfg, i.device, i.identifier,
                                       slot, i.env))

\* A direct call of battery.handle_event.
BatteryEvent ==
    /\ Idle
    /\ \E i \in BatteryInputs :
        Called("battery", i.cfg,
               Event("battery", None, i.device, i.identifier, i.value), Quiet,
               battery_handle_event(i.cfg, i.device, i.identifier, i.value,
                                    slot))

\* A direct call of jack.handle_event.
JackEvent ==
    /\ Idle
    /\ \E i \in JackInputs :
        Called("jack", i.cfg,
               Event("jack", i.action, None, i.identifier, None), i.env,
               jack_handle_event(i.cfg, i.action, i.identifier, slot, i.env))

\* A direct call of thermal_zone.handle_event.
ThermalZoneEvent ==
    /\ Idle
    /\ \E i \in ThermalInputs :
        Called("thermal_zone", i.cfg,
               Event("thermal_zone", i.action, i.device, i.identifier,
                     i.value), Quiet,
               thermal_zone_handle_event(i.cfg, i.action, i.device,
                                         i.identifier, i.value, slot))

\* A direct call of video.handle_event.
VideoEvent ==
    /\ Idle
    /\ \E i \in VideoInputs :
        Called("video", i.cfg,
               Event("video", i.action, i.device, None, None), i.env,
               video_handle_event(i.cfg, i.action, i.device, slot, i.env))

\* A direct call of video._modify_brightness(value); the call's cfg holds
\* the argument.
ModifyBrightness ==
    /\ Idle
    /\ \E i \in ModifyInputs :
        LET r == video_modify_brightness(JInt(i.value), i.env)
        IN  Called("modify_brightness", [value |-> JInt(i.value)],
                   Event("video", None, None, None, None), i.env,
                   HandlerOut(slot, r.eff, r.exc, 0, "none", NoTime))

\* A direct call of wmi.handle_event.
WmiEvent ==
    /\ Idle
    /\ \E i \in WmiInputs :
        Called("wmi", i.cfg,
               Event("wmi", i.action, i.device, i.identifier, i.value), Quiet,
               wmi_handle_event(i.cfg, i.action, i.device, i.identifier,
                                i.value, slot))

\* A run of the dispatcher: acpi_action <args>.
Main ==
    /\ Idle
    /\ \E i \in MainInputs :
        LET r == main(i.args, i.file, slot, i.env)
        IN  /\ slot' = r.slot
            /\ effects' = r.eff
            /\ result' = [exc |-> r.exc, code |-> r.code]
            /\ call' = [kind |-> "main", args |-> i.args, file |-> i.file,
                        cfg |-> NoConfig, ev |-> r.ev, env |-> i.env,
                        class |-> r.class, last |-> r.last,
                        handler |-> r.handler, before |-> slot]
            /\ UNCHANGED <<prev, procs, backlight>>

\* The process of the last call exits.
Exit ==
    /\ ~Idle
    /\ call' = NoCall
    /\ effects' = <<>>
    /\ result' = NoResult
    /\ prev' = Summary(call)
    /\ UNCHANGED <<slot, procs, backlight>>

\* Between two calls something else writes a button's slot file; the handlers
\* read whatever the file holds.
Tamper ==
    /\ Idle
    /\ \E n \in {state_power_button, state_sleep_button}, d \in TamperData :
        slot' = [slot EXCEPT ![n] = [exists |-> TRUE, data |-> d]]
    /\ prev' = NoPress
    /\ UNCHANGED <<call, effects, result, procs, backlight>>

Next ==
    \/ Tamper
    \/ ButtonEvent
    \/ AcAdapterEvent
    \/ BatteryEvent
    \/ JackEvent
    \/ ThermalZoneEvent
    \/ VideoEvent
    \/ ModifyBrightness
    \/ WmiEvent
    \/ Main
    \/ Exit

Spec == Init /\ [][Next]_vars

(***************************************************************************)
(* Properties of the last call.                                            *)
(***************************************************************************)

Ops == {effects[i].op : i \in 1..Len(effects)}

CollabOps == {"blank_screen", "poweroff", "suspend"}

\* The collaborator calls of the last call, in order.
ActionsDone ==
    LET done == SelectSeq(effects, LAMBDA e : e.op \in CollabOps)
    IN  [i \in 1..Len(done) |-> done[i].op]

\* The handlers that ran in the last call, in order.
HandlersRun ==
    IF call.kind = "main"
    THEN LET ran == SelectSeq(effects, LAMBDA e : e.op = "handler")
         IN  [i \in 1..Len(ran) |-> ran[i].arg]
    ELSE <<call.kind>>

\* The last call read or wrote no slot, sent no frame and called no
\* collaborator.
NoSideEffects ==
    /\ slot = call.before
    /\ Ops \cap (CollabOps \cup {"slot_read", "slot_write", "slot_write_error",
                                 "send", "send_error", "notify",
                                 "notify_error"}) = {}

\* The last call wrote no slot and sent no frame.
NoMutation ==
    /\ slot = call.before
    /\ Ops \cap {"slot_write", "slot_write_error", "send", "send_error"} = {}

Returned(code) == result.exc = NoExc /\ result.code = code

ReturnedNonZero == result.exc = NoExc /\ result.code # 0

PowerPress ==
    /\ call.handler = "button"
    /\ call.ev.action = "power"
    /\ call.ev.device = valid_power_button

SleepPress ==
    /\ call.handler = "button"
    /\ call.ev.action = "sleep"
    /\ call.ev.device = valid_sleep_button

ValidPress == PowerPress \/ SleepPress

\* The slot of the pressed button.
PressSlot ==
    IF call.ev.action = "power" THEN state_power_button
    ELSE state_sleep_button

\* The write of the slot raised nothing.
WriteOk == call.env.wfault = "ok"

\* The timestamp T1 that the pressed button's slot held when the call
\* started, or NoTime.
PriorTime ==
    IF call.before[PressSlot].exists
    THEN from_bytes(call.before[PressSlot].data)
    ELSE NoTime

SlotHolds(name, t) == slot[name].exists /\ from_bytes(slot[name].data) = t

\* C1: for a press of the power or sleep button with a valid device whose
\* slot write succeeds: with a prior timestamp T1 in the slot and
\* |T2 - T1| < 2400 the press is classified a double-press, with
\* |T2 - T1| >= 2400 a single press, and without a prior slot value a
\* single press.
C1_DebounceClassification ==
    (ValidPress /\ WriteOk) =>
        /\ (PriorTime # NoTime /\ Abs(call.env.now - PriorTime) < max_delay)
              => call.class = "double"
        /\ (PriorTime # NoTime /\ Abs(call.env.now - PriorTime) >= max_delay)
              => call.class = "single"
        /\ PriorTime = NoTime => call.class = "single"

C1_Witness ==
    /\ PowerPress /\ WriteOk
    /\ PriorTime # NoTime
    /\ call.env.now - PriorTime = max_delay - 1
    /\ call.class = "double"

\* The last call is the third of three presses of one button at
\* T1 < T2 < T3 with T2 - T1 < 2400 and T3 - T2 < 2400 (prev is the second).
ThirdPress ==
    /\ ValidPress /\ WriteOk
    /\ prev.button = call.ev.action
    /\ prev.now < call.env.now
    /\ call.env.now - prev.now < max_delay

\* The primary action of the pressed button: power off or suspend.
PrimaryOp == IF call.ev.action = "power" THEN "poweroff" ELSE "suspend"

\* C2 as claimed: of three presses of one button at T1 < T2 < T3 with
\* T2 - T1 < 2400 and T3 - T2 < 2400 the second is a double-press and the
\* third is not: it is not classified a double-press and does not trigger
\* the primary action again.
C2_ThirdPressDoesNotChain ==
    ThirdPress =>
        /\ prev.class = "double"
        /\ call.class # "double"
        /\ PrimaryOp \notin Ops

\* C2 as amended: the second press is a double-press, and the third, being
\* less than 2400 ms after the timestamp the second wrote, is classified a
\* double-press as well and triggers the primary action again.
C2_ThirdPressChains ==
    ThirdPress =>
        /\ prev.class = "double"
        /\ call.class = "double"
        /\ ActionsDone = <<PrimaryOp>>

C2_Witness ==
    /\ ThirdPress /\ PowerPress
    /\ prev.class = "double"
    /\ call.class = "double"
    /\ "poweroff" \in Ops

\* C3: after a press of the power or sleep button with a valid device whose
\* slot write succeeds, the button's slot holds the call's timestamp,
\* whatever the classification and whether or not the triggered action
\* succeeds, and the write comes before the action.
C3_SlotHoldsTimestamp ==
    (ValidPress /\ WriteOk) =>
        /\ SlotHolds(PressSlot, call.env.now)
        /\ \E i \in 1..Len(effects) :
              /\ effects[i].op = "slot_write"
              /\ effects[i].arg = PressSlot
              /\ from_bytes(effects[i].data) = call.env.now
              /\ \A j \in 1..Len(effects) :
                    effects[j].op \in CollabOps => i < j

C3_Witness ==
    /\ SleepPress /\ WriteOk
    /\ call.class = "double"
    /\ call.env.collab # "ok"
    /\ result.exc # NoExc
    /\ SlotHolds(state_sleep_button, call.env.now)
    /\ call.before[state_sleep_button].data # slot[state_sleep_button].data

\* The double-press of the debounce rule, from the slot as the call found it.
DoublePress ==
    PriorTime # NoTime /\ Abs(call.env.now - PriorTime) < max_delay

\* C4: a press triggers the action of its classification and no other: a
\* power-button double-press powers off and does not blank the screen, a
\* power-button single press blanks the screen and does not power off, a
\* sleep-button double-press suspends, a sleep-button single press does
\* nothing.
C4_ExactlyTheClassifiedAction ==
    /\ (PowerPress /\ WriteOk /\ DoublePress) => ActionsDone = <<"poweroff">>
    /\ (PowerPress /\ WriteOk /\ ~DoublePress)
          => ActionsDone = <<"blank_screen">>
    /\ (SleepPress /\ WriteOk /\ DoublePress) => ActionsDone = <<"suspend">>
    /\ (SleepPress /\ WriteOk /\ ~DoublePress) => ActionsDone = <<>>

C4_Witness ==
    /\ PowerPress /\ WriteOk
    /\ PriorTime # NoTime /\ ~DoublePress
    /\ ActionsDone = <<"blank_screen">>
    /\ Returned(0)

\* C5: a run of the dispatcher for button/power PBTN with a valid
\* configuration file and no prior slot value reaches the button handler,
\* blanks the screen and does not power off, writes the power-button slot
\* with the current timestamp and exits with code 0.
C5_PowerPressThroughDispatcher ==
    (/\ call.kind = "main"
     /\ call.args = <<"acpi_action", <<"button", "/", "power">>, "PBTN">>
     /\ call.file = GoodFile
     /\ ~call.before[state_power_button].exists)
        => /\ Returned(0)
           /\ HandlersRun = <<"button">>
           /\ ActionsDone = <<"blank_screen">>
           /\ SlotHolds(state_power_button, call.env.now)

\* The device of the last call is a string or None that differs from the
\* identifier j.
Differs(j) ==
    IF call.ev.device = None THEN j.t # "null"
    ELSE j.t # "str" \/ j.s # call.ev.device

\* The device of the last call is not the one its handler expects.
PressMismatch ==
    /\ call.kind = "button"
    /\ \/ call.ev.action = "power" /\ call.ev.device # valid_power_button
       \/ call.ev.action = "sleep" /\ call.ev.device # valid_sleep_button

ErrorMismatch ==
    \/ call.kind = "ac_adapter" /\ Differs(call.cfg.ac_adapter_device)
    \/ call.kind = "battery" /\ Differs(call.cfg.battery_device)
    \/ /\ call.kind = "button" /\ call.ev.action = "lid"
       /\ call.ev.device # valid_lid_button
    \/ /\ call.kind = "video" /\ call.ev.action = "brightnessup"
       /\ call.ev.device # "BRTUP"
    \/ /\ call.kind = "video" /\ call.ev.action = "brightnessdown"
       /\ call.ev.device # "BRTDN"

WmiMismatch == call.kind = "wmi" /\ Differs(call.cfg.wmi_device)

GroupOf(args) == split1(args[2])[1]

SevenGroups ==
    {"ac_adapter", "battery", "button", "jack", "thermal_zone", "video",
     "wmi"}

\* C7: for each of the seven groups the dispatcher, given a valid
\* configuration file, invokes exactly one handler, the handler of that
\* group, and does not report the group as unknown.
C7_OneHandlerPerGroup ==
    (/\ call.kind = "main"
     /\ Len(call.args) >= 2
     /\ call.file = GoodFile
     /\ GroupOf(call.args) \in SevenGroups)
        => /\ HandlersRun = <<GroupOf(call.args)>>
           /\ ~Returned(2)

\* C8: a run of the dispatcher, given a valid configuration file, for an
\* event whose group is not recognised exits with code 2 and has no
\* side effects.
C8_UnknownGroupExitsTwo ==
    (/\ call.kind = "main"
     /\ Len(call.args) >= 2
     /\ call.file = GoodFile
     /\ GroupOf(call.args) \notin SevenGroups)
        => /\ Returned(2)
           /\ HandlersRun = <<>>
           /\ NoSideEffects

\* C9: a run of the dispatcher with fewer than two arguments exits with
\* code 0 and does nothing: it does not load the configuration, touches no
\* slot, sends no frame and calls no collaborator, whatever the
\* configuration file.
C9_TooFewArgumentsIsNoOp ==
    (call.kind = "main" /\ Len(call.args) < 2) =>
        /\ Returned(0)
        /\ effects = <<>>
        /\ NoSideEffects

C9_Witness ==
    /\ call.kind = "main"
    /\ Len(call.args) = 1
    /\ call.file \in InvalidFiles
    /\ Returned(0)
    /\ slot[state_power_button].exists

\* C10: when the configuration cannot be loaded, a run of the dispatcher
\* with at least two arguments exits with code 1 and runs no handler,
\* whatever the group: no slot write, no frame, no collaborator call.
C10_LoadFailureExitsOne ==
    (/\ call.kind = "main"
     /\ Len(call.args) >= 2
     /\ from_path(call.file).exc # NoExc)
        => /\ Returned(1)
           /\ HandlersRun = <<>>
           /\ NoSideEffects

C10_Witness ==
    /\ call.kind = "main"
    /\ Len(call.args) >= 2
    /\ GroupOf(call.args) = "processor"
    /\ call.file = MalformedFile
    /\ Returned(1)
    /\ "from_path" \in Ops

\* The configuration file is valid: the nine keys are present, every
\* identifier is a string and the brightness step is a positive integer.
ValidFile(file) ==
    /\ file.is_file /\ file.well_formed
    /\ \A i \in 1..Len(entries) : entries[i] \in DOMAIN file.data
    /\ \A i \in 1..(Len(entries) - 1) : file.data[entries[i]].t = "str"
    /\ file.data["brightness-modifier"].t = "int"
    /\ file.data["brightness-modifier"].n > 0

\* The last call is a run of the dispatcher with an event and a valid
\* configuration file.
ValidRun ==
    /\ call.kind = "main"
    /\ Len(call.args) >= 2
    /\ ValidFile(call.file)

\* The results that the handlers return.
HandlerCodes == 0..5

\* The last call is a handler called with a configuration.
HandlerCall ==
    call.kind \in {"ac_adapter", "battery", "button", "jack", "thermal_zone",
                   "video", "wmi"}

\* C11: the exit code is 0 exactly when the configuration loaded, the group
\* was recognised and the handler returned 0: so a thermal_zone event, whose
\* handler always returns 0, exits with 0 under a valid configuration; a
\* non-zero handler result maps to an exit code of 3 or more that reflects
\* the result, so that a different non-zero result gives a different code.
C11_ExitCodeReflectsHandler ==
    /\ (ValidRun /\ GroupOf(call.args) = "thermal_zone") => Returned(0)
    /\ (HandlerCall /\ ReturnedNonZero) =>
          /\ exit_status(result.code) >= 3
          /\ \A d \in HandlerCodes \ {0, result.code} :
                exit_status(d) # exit_status(result.code)

\* C12: for every valid configuration file the load succeeds and returns an
\* ActionConfig in which each field holds the value of its hyphenated key;
\* loading the same file twice yields equal values.
C12_ValidFileLoads ==
    ValidRun =>
        /\ from_path(call.file).exc = NoExc
        /\ \A i \in 1..Len(entries) :
              from_path(call.file).cfg[ActionConfigFields[i]]
                  = call.file.data[entries[i]]
        /\ "from_path" \in Ops
        /\ ~Returned(1)

\* The value of a key of a file is present and not of the type t.
NotOfType(file, key, t) ==
    key \in DOMAIN file.data /\ file.data[key].t # t

\* The configuration file is JSON and malformed: a key is missing, an
\* identifier is no string, or the brightness step is no positive integer.
MalformedConfig(file) ==
    /\ file.is_file /\ file.well_formed
    /\ \/ \E i \in 1..Len(entries) : entries[i] \notin DOMAIN file.data
       \/ \E i \in 1..(Len(entries) - 1) : NotOfType(file, entries[i], "str")
       \/ NotOfType(file, "brightness-modifier", "int")
       \/ /\ "brightness-modifier" \in DOMAIN file.data
          /\ file.data["brightness-modifier"].n <= 0

Frames ==
    LET sent == SelectSeq(effects, LAMBDA e : e.op \in {"send", "send_error"})
    IN  [i \in 1..Len(sent) |-> sent[i].data]

\* C14: every frame that the client transmits for SaveState, RestoreState or
\* SetPowersave is exactly 2 bytes long: the opcode (2, 3 or 4) and a len
\* byte of 0, without payload and without trailing bytes.
C14_SimpleFramesAreTwoBytes ==
    \A i \in 1..Len(Frames) :
        Frames[i][1] \in {SaveState, RestoreState, SetPowersave} =>
            /\ Len(Frames[i]) = SimpleCommandFrameSize
            /\ Frames[i] = <<Frames[i][1], 0>>

\* The payload of a ModifyState frame by the layout of ModifyStateFrame:
\* bytes 3 to 6 as a little-endian two's complement 32 bit integer.
decode_value(frame) ==
    frame[3] + 256 * frame[4] + 65536 * frame[5]
        + 16777216 * (IF frame[6] >= 128 THEN frame[6] - 256 ELSE frame[6])

\* The last call is _modify_brightness(d) and it handed a frame to sendall.
ModifyCall == call.kind = "modify_brightness" /\ Len(Frames) > 0

\* C15: for every signed 32 bit delta d the ModifyState frame is exactly 6
\* bytes: opcode 1, len 4, then d as a little-endian two's complement 32 bit
\* integer without padding; decoding the 6 bytes by the frame layout yields
\* opcode ModifyState and payload d, for negative d too.
C15_ModifyFrameRoundTrip ==
    ModifyCall =>
        /\ Len(Frames) = 1
        /\ Len(Frames[1]) = ModifyStateFrameSize
        /\ \A k \in 1..Len(Frames[1]) : Frames[1][k] \in 0..255
        /\ Frames[1][1] = ModifyState
        /\ Frames[1][2] = 4
        /\ decode_value(Frames[1]) = call.cfg.value.n

C15_Witness ==
    /\ ModifyCall
    /\ call.cfg.value.n = MinInt32
    /\ Frames[1] = <<1, 4, 0, 0, 0, 128>>

\* The last call is a video event with a valid pair of action and device and
\* an integer step.
VideoPress ==
    /\ call.kind = "video"
    /\ \/ call.ev.action = "brightnessup" /\ call.ev.device = "BRTUP"
       \/ call.ev.action = "brightnessdown" /\ call.ev.device = "BRTDN"
    /\ call.cfg.brightness_modifier.t = "int"

\* The last call is an ac_adapter event that reaches the brightness
\* commands: the device is the configured one and the state is 0 or 1.
AcPress ==
    /\ call.kind = "ac_adapter"
    /\ ~Differs(call.cfg.ac_adapter_device)
    /\ int(call.ev.identifier).exc = NoExc
    /\ int(call.ev.identifier).n \in {0, 1}

SocketAbsent == call.env.daemon = "nosocket"

\* C16: when the daemon's socket path is absent or no socket, the client does
\* no socket I/O on any send operation (modify, save, restore, powersave) and
\* raises no error, and a video event with a valid action and device returns
\* status 0.
C16_SocketAbsentIsSilent ==
    /\ (SocketAbsent /\ (VideoPress \/ AcPress \/ call.kind = "modify_brightness"))
          => Frames = <<>>
    /\ (SocketAbsent /\ call.kind = "modify_brightness")
          => result.exc = NoExc /\ effects = <<>>
    /\ (SocketAbsent /\ VideoPress) => Returned(0) /\ effects = <<>>
    /\ (SocketAbsent /\ AcPress) =>
          /\ ac_brightness(int(call.ev.identifier).n, call.env) = <<>>
          /\ effects[1].op \in {"slot_write", "slot_write_error"}

C16_Witness ==
    /\ SocketAbsent /\ VideoPress
    /\ call.ev.action = "brightnessdown"
    /\ Returned(0)
    /\ Frames = <<>>

\* The delta that a video event asks for: the configured step, negated for
\* brightnessdown.
VideoDelta(step) ==
    IF call.ev.action = "brightnessdown" THEN -step ELSE step

\* The last call sent exactly one ModifyState frame, with payload d.
SentDelta(d) ==
    /\ Ops \cap {"send_error"} = {}
    /\ Len(Frames) = 1
    /\ Len(Frames[1]) = ModifyStateFrameSize
    /\ Frames[1][1] = ModifyState
    /\ Frames[1][2] = 4
    /\ decode_value(Frames[1]) = d

\* C17: a video event with action brightnessup on device BRTUP, configured
\* step N and the daemon's socket present sends exactly one ModifyState frame
\* with payload +N and exits with 0; brightnessdown on BRTDN sends exactly one
\* with payload -N and exits with 0.  Stated for the handler called with a
\* configuration and for the run of the dispatcher that delivers the event.
C17_VideoEventSendsDelta ==
    /\ (VideoPress /\ call.env.daemon = "ok") =>
          /\ SentDelta(VideoDelta(call.cfg.brightness_modifier.n))
          /\ Returned(0)
    /\ (/\ ValidRun
        /\ Len(call.args) >= 3
        /\ call.args[2] = <<"video", "/", "brightnessup">>
        /\ call.args[3] = "BRTUP"
        /\ call.env.daemon = "ok") =>
          /\ SentDelta(call.file.data["brightness-modifier"].n)
          /\ Returned(0)

\* The positions in the last call's operations of the frames with opcode op.
SentAt(op) ==
    {i \in 1..Len(effects) :
        effects[i].op = "send" /\ effects[i].data[1] = op}

\* The positions of the operations named op with argument arg.
DoneAt(op, arg) ==
    {i \in 1..Len(effects) : effects[i].op = op /\ effects[i].arg = arg}

\* A SaveState frame, then a SetPowersave frame, then the write of the
\* adapter's slot, then the notification 'unplugged'; the slot holds 0.
UnpluggedSequence ==
    /\ \E i \in SentAt(SaveState), j \in SentAt(SetPowersave),
          k \in DoneAt("slot_write", state_file),
          l \in DoneAt("notify", "AC adapter: Status: unplugged") :
            i < j /\ j < k /\ k < l
    /\ Len(Frames) = 2
    /\ SlotHolds(state_file, 0)

\* C18: a run of the dispatcher for ac_adapter <configured device> 0, the
\* identifier 0 being the third positional argument and no value given, sends
\* a SaveState frame and then a SetPowersave frame, both before the slot
\* write, then updates the adapter's slot to 0 and calls the notifier with
\* the message 'unplugged'.  Stated for the run and for the handler called
\* with these arguments.
C18_UnpluggedThroughDispatcher ==
    /\ (/\ ValidRun
        /\ call.args = <<"acpi_action", <<"ac_adapter">>, "ACAD", "0">>
        /\ call.env.daemon = "ok")
          => UnpluggedSequence
    /\ (/\ AcPress
        /\ call.ev.identifier = "0"
        /\ call.env.daemon = "ok" /\ call.env.collab = "ok" /\ WriteOk)
          => UnpluggedSequence

\* The only failure of the last call is the notification or the frame send.
OnlyTransientFailure ==
    \/ /\ call.kind = "jack"
       /\ call.ev.action \in {"headphone", "videoout", "lineout"}
       /\ call.env.collab # "ok"
    \/ /\ VideoPress
       /\ call.env.daemon \in {"refused", "sendfail"}
    \/ /\ AcPress /\ WriteOk
       /\ \/ call.env.collab # "ok"
          \/ call.env.daemon \in {"refused", "sendfail"}

\* C19: a failing notification call or an unreachable brightness daemon is
\* logged and never makes the invocation end non-zero: an ac_adapter, jack or
\* video event whose only failure is the notification or the frame send ends
\* with status 0.
C19_TransientFailureIsSuccess ==
    OnlyTransientFailure =>
        /\ Returned(0)
        /\ "log_error" \in Ops

\* The slot of the pressed button, as the call found it, is missing, empty,
\* or longer than any file the handlers write for the current time.
SlotUnusable ==
    \/ ~call.before[PressSlot].exists
    \/ Len(call.before[PressSlot].data) = 0
    \/ Len(call.before[PressSlot].data) > byte_length(call.env.now)

\* C20: reading a slot never fails the handler, and whenever the slot file is
\* missing, empty or oversized or corrupt the press counts as a first
\* occurrence: a single press, never a double-press, whatever bytes the file
\* holds.
C20_UnusableSlotIsFirstPress ==
    (ValidPress /\ WriteOk /\ SlotUnusable) =>
        /\ call.class = "single"
        /\ PrimaryOp \notin Ops

\* C21: for every event of a recognised group and every failure inside its
\* handler (a slot write that fails, an absent or malformed identifier or
\* value, a collaborator raising any exception) the handling ends with an
\* integer status: no exception leaves the handler or the dispatcher; and a
\* failed slot write is reported without aborting the handling, so the press
\* still triggers the action of its classification.
C21_NoExceptionEscapes ==
    /\ (HandlerCall \/ call.kind = "main") => result.exc = NoExc
    /\ (ValidPress /\ ~WriteOk) =>
          /\ result.exc = NoExc
          /\ "slot_write_error" \in Ops
          /\ (PowerPress => ActionsDone # <<>>)

\* C23: a failure of the compositor's screen-blank call during a single press
\* of the power button (a malformed IPC reply, an unsuccessful IPC command or
\* any other error) is logged only and never escalated: the button handler
\* returns 0.
C23_BlankFailureIsLoggedOnly ==
    (/\ PowerPress /\ WriteOk /\ ~DoublePress
     /\ ActionsDone = <<"blank_screen">>
     /\ call.env.collab # "ok")
        => /\ Returned(0)
           /\ "log_error" \in Ops

\* The last call of the button handler went past the test of the device.
Accepted ==
    CASE call.ev.action \in {"power", "sleep"} -> "slot_read" \in Ops
      [] OTHER -> Returned(0)

\* The identifier that a configuration records for the button of the event.
ConfiguredButton(cfg) ==
    CASE call.ev.action = "power" -> cfg.power_button
      [] call.ev.action = "sleep" -> cfg.sleep_button
      [] OTHER -> cfg.lid_button

\* C24: a power, sleep or lid button event is accepted exactly when its
\* device equals the power-button, sleep-button or lid-button identifier of
\* the loaded ActionConfig, so that a different configured identifier changes
\* which device is accepted.  The button handler takes no configuration, so
\* what it did is what it does under every configuration.
C24_ButtonsUseConfiguredDevice ==
    (/\ call.kind = "button"
     /\ call.ev.action \in {"power", "sleep", "lid"}
     /\ call.ev.action = "lid" => call.ev.identifier = "open"
     /\ result.exc = NoExc)
        => \A cfg \in ActionConfigs :
              Accepted <=> (/\ call.ev.device # None
                            /\ ConfiguredButton(cfg) = JStr(call.ev.device))

\* The last call is an ac_adapter event on the configured device whose
\* plug-state argument is absent, no integer, or an integer other than 0, 1.
BadPlugState ==
    /\ call.kind = "ac_adapter"
    /\ ~Differs(call.cfg.ac_adapter_device)
    /\ \/ call.ev.identifier = None
       \/ int(call.ev.identifier).exc # NoExc
       \/ int(call.ev.identifier).n \notin {0, 1}

\* C25: an ac_adapter event with a matching device whose plug-state argument
\* is absent, not an integer, or an integer other than 0 or 1 returns a
\* non-zero status and leaves no partial state: no frame is sent, the
\* adapter's slot is not written and no notification is issued.
C25_BadPlugStateIsRejected ==
    BadPlugState =>
        /\ ReturnedNonZero
        /\ NoMutation
        /\ Ops \cap {"notify", "notify_error"} = {}

\* The one WMI event that the handler accepts.
WmiAccepted ==
    /\ ~Differs(call.cfg.wmi_device)
    /\ call.ev.action = None
    /\ int16(call.ev.identifier).exc = NoExc
    /\ int16(call.ev.identifier).n = wmi_ident
    /\ int16(call.ev.value).exc = NoExc
    /\ int16(call.ev.value).n = 0

\* C26: the WMI handler returns 0 exactly when the device is the configured
\* WMI device, no action is present, the identifier parses as hexadecimal to
\* 0xd0 and the value to 0; every other WMI event, one with an absent or
\* non-hexadecimal identifier or value included, gives a non-zero status and
\* not an exception.
C26_WmiReportsStatus ==
    call.kind = "wmi" =>
        /\ result.exc = NoExc
        /\ (result.code = 0) <=> WmiAccepted

\* The slots that the handler of the last call may touch.
OwnedSlots ==
    CASE call.kind = "button" /\ call.ev.action = "power" ->
            {state_power_button}
      [] call.kind = "button" /\ call.ev.action = "sleep" ->
            {state_sleep_button}
      [] call.kind = "ac_adapter" -> {state_file}
      [] OTHER -> {}

SlotOps == {"slot_read", "slot_write", "slot_write_error"}

\* C28: the slots are independent: a power-button event reads and writes
\* only the power-button slot, a sleep-button event only the sleep-button
\* slot, an ac_adapter event writes only the adapter's slot, and lid, volume
\* and direction button, battery, jack, thermal_zone, video and wmi events
\* leave every slot as it was.
C28_SlotsAreIndependent ==
    HandlerCall =>
        /\ \A n \in Slots \ OwnedSlots : slot[n] = call.before[n]
        /\ \A i \in 1..Len(effects) :
              effects[i].op \in SlotOps => effects[i].arg \in OwnedSlots
        /\ call.kind = "ac_adapter" => "slot_read" \notin Ops

C28_Witness ==
    /\ call.kind = "ac_adapter"
    /\ "slot_write" \in Ops
    /\ slot[state_file] # call.before[state_file]
    /\ slot[state_power_button].exists
    /\ slot[state_sleep_button].exists
    /\ slot[state_power_button] = call.before[state_power_button]
    /\ slot[state_sleep_button] = call.before[state_sleep_button]

(***************************************************************************)
(* Two runs of _power_button at once.  Each run is its own process; the    *)
(* read of the slot, the write of the slot and the action are separate     *)
(* steps, and no lock orders the steps of one run against the other's.     *)
(***************************************************************************)

Procs == {1, 2}

\* The slot is absent or holds EpochMs; the runs come two max_delay later
\* or, one of them, right after EpochMs or a further max_delay on.
RaceTimes ==
    {EpochMs + 1, EpochMs + 2 * max_delay, EpochMs + 2 * max_delay + 1,
     EpochMs + 3 * max_delay + 1}

RaceSlots ==
    {Absent,
     [exists |-> TRUE, data |-> to_bytes(EpochMs, byte_length(EpochMs))]}

RaceInit ==
    /\ \E f \in RaceSlots :
        slot = [s \in Slots |-> IF s = state_power_button THEN f ELSE Absent]
    /\ procs \in [Procs -> [pc : {"read"}, now : RaceTimes, last : {NoTime},
                            class : {"none"}]]
    /\ call = NoCall
    /\ effects = <<>>
    /\ result = NoResult
    /\ prev = NoPress
    /\ backlight = NoBacklight

\* try: last_time = int.from_bytes(_state_power_button.read_bytes(), ...)
RaceRead(p) ==
    /\ procs[p].pc = "read"
    /\ procs' = [procs EXCEPT ![p].pc = "write",
                              ![p].last = read_time(slot, state_power_button)]
    /\ effects' = Append(effects, Eff("slot_read", state_power_button, <<p>>))
    /\ UNCHANGED <<slot, call, result, prev, backlight>>

\* cur_time = int(time() * 1000.0); _state_power_button.write_bytes(...)
RaceWrite(p) ==
    /\ procs[p].pc = "write"
    /\ LET cur_time == procs[p].now
           wr == write_bytes(slot, state_power_button,
                             to_bytes(cur_time, byte_length(cur_time)), "ok")
       IN  slot' = wr.slot
    /\ procs' = [procs EXCEPT ![p].pc = "act"]
    /\ effects' = Append(effects, Eff("slot_write", state_power_button, <<p>>))
    /\ UNCHANGED <<call, result, prev, backlight>>

\* The branches of _power_button: power off or blank the screen.
RaceAct(p) ==
    /\ procs[p].pc = "act"
    /\ LET act == power_action(procs[p].now, procs[p].last, Quiet)
       IN  /\ procs' = [procs EXCEPT ![p].pc = "done", ![p].class = act.class]
           /\ effects' = Append(effects, Eff(act.c.eff[1].op,
                                             state_power_button, <<p>>))
    /\ UNCHANGED <<slot, call, result, prev, backlight>>

RaceNext ==
    \/ \E p \in Procs : RaceRead(p)
    \/ \E p \in Procs : RaceWrite(p)
    \/ \E p \in Procs : RaceAct(p)

RaceSpec == RaceInit /\ [][RaceNext]_vars

\* The position of the step op of run p among the steps taken so far.
StepAt(op, p) ==
    CHOOSE i \in 1..Len(effects) :
        effects[i].op = op /\ effects[i].data = <<p>>

BothDone == \A p \in Procs : procs[p].pc = "done"

\* Both runs read the slot before either wrote it.
BothReadFirst ==
    \A p, q \in Procs : StepAt("slot_read", p) < StepAt("slot_write", q)

\* Run p wrote the slot before run q read it.
Serial(p, q) == StepAt("slot_write", p) < StepAt("slot_read", q)

\* The runs are less than max_delay apart.
CloseRuns == Abs(procs[1].now - procs[2].now) < max_delay

\* What the slot held at the start is at least max_delay older than run p's
\* time, or there was nothing.
StaleFor(p) ==
    procs[p].last = NoTime \/ Abs(procs[p].now - procs[p].last) >= max_delay

\* C27: two runs of the power button less than 2400 ms apart are not ordered
\* by any lock: when both read the slot before either writes it, starting
\* from no prior value or a stale one, both are classified single presses and
\* power-off is not triggered, whereas the same two runs one after the other
\* make the later one a double-press.
C27_RaceLosesDoublePress ==
    BothDone =>
        /\ (CloseRuns /\ BothReadFirst /\ \A p \in Procs : StaleFor(p)) =>
              /\ \A p \in Procs : procs[p].class = "single"
              /\ \A i \in 1..Len(effects) : effects[i].op # "poweroff"
        /\ \A p, q \in Procs :
              (CloseRuns /\ p # q /\ Serial(p, q)) =>
                  procs[q].class = "double"

C27_Witness ==
    /\ BothDone /\ CloseRuns /\ BothReadFirst
    /\ procs[1].now # procs[2].now
    /\ \A p \in Procs : procs[p].last = EpochMs /\ StaleFor(p)
    /\ \A p \in Procs : procs[p].class = "single"
    /\ \A i \in 1..Len(effects) : effects[i].op # "poweroff"

(***************************************************************************)
(* The brightness tool (scripts/brightness.py): the backlight node in      *)
(* sysfs and the state file of --save and --restore.                       *)
(***************************************************************************)

\* max_brightness of the node: below and above _powersave_value.
SmallMax == 100
LargeMax == 120

\* _powersave_value
powersave_value == 112

MaxLevels == {SmallMax, LargeMax}
StartLevels == {0, 40}

\* The arguments of --modify.
Modifiers == {"-200", "-40", "40", "200", "up"}

\* What the system does to one run of the tool: the node is found or not,
\* brightness and max_brightness can be read or not, brightness can be
\* written or not, and the state file can be read, written and removed, or
\* the operation on it raises before ("eopen") or halfway ("ewrite").
ToolQuiet ==
    [lookup |-> TRUE, read |-> TRUE, readmax |-> TRUE, write |-> TRUE,
     file |-> "ok"]

ToolEnvs ==
    {ToolQuiet,
     [ToolQuiet EXCEPT !.lookup = FALSE],
     [ToolQuiet EXCEPT !.read = FALSE],
     [ToolQuiet EXCEPT !.readmax = FALSE],
     [ToolQuiet EXCEPT !.write = FALSE],
     [ToolQuiet EXCEPT !.file = "eopen"],
     [ToolQuiet EXCEPT !.file = "ewrite"]}

\* int(read_sysfs(path)): read_sysfs returns None when the read raises, and
\* int(None) raises TypeError.
read_int(level, readable) ==
    IF readable THEN [exc |-> NoExc, n |-> level]
    ELSE [exc |-> "TypeError", n |-> 0]

\* write_sysfs(path, value): 0 once the text is written, 1 when the write
\* raises.
write_sysfs(b, value, env) ==
    IF env.write
    THEN [bl |-> [b EXCEPT !.brightness = value], ret |-> 0,
          eff |-> <<Eff("sysfs_write", "brightness", <<value>>)>>]
    ELSE [bl |-> b, ret |-> 1,
          eff |-> <<Eff("sysfs_write_error", "brightness", <<value>>)>>]

\* if state > max_state: state = max_state / elif state < 0: state = 0
clamp(state, max_state) ==
    IF state > max_state THEN max_state
    ELSE IF state < 0 THEN 0
    ELSE state

ToolOut(b, eff, code) == [bl |-> b, eff |-> eff, code |-> code]

\* modify_state(lg, value)
modify_state(value, b, env) ==
    LET modifier == int(value)
        state == read_int(b.brightness, env.read)
        max_state == read_int(b.max, env.readmax)
    IN  IF modifier.exc # NoExc THEN ToolOut(b, <<>>, 1)
        ELSE IF ~env.lookup THEN ToolOut(b, <<>>, 2)
        ELSE IF state.exc # NoExc THEN ToolOut(b, <<>>, 3)
        ELSE IF max_state.exc # NoExc THEN ToolOut(b, <<>>, 4)
        ELSE LET wr == write_sysfs(b, clamp(state.n + modifier.n, max_state.n),
                                   env)
             IN  ToolOut(wr.bl, wr.eff, IF wr.ret # 0 THEN 5 ELSE 0)

\* state.to_bytes((state.bit_length() + 7) // 8, byteorder='little')
state_bytes(state) == to_bytes(state, byte_length(state))

\* save_state(lg); b.saved is the level that the state file stands for, or
\* NoTime when the file is absent or was cut short.
save_state(b, env) ==
    LET state == read_int(b.brightness, env.read)
    IN  IF ~env.lookup THEN ToolOut(b, <<>>, 1)
        ELSE IF state.exc # NoExc THEN ToolOut(b, <<>>, 2)
        ELSE CASE env.file = "ok" ->
                    ToolOut([b EXCEPT !.file = [exists |-> TRUE,
                                                data |-> state_bytes(state.n)],
                                      !.saved = state.n],
                            <<Eff("file_write", "backlight",
                                  state_bytes(state.n))>>, 0)
               [] env.file = "eopen" ->
                    ToolOut(b, <<Eff("file_write_error", "backlight", <<>>)>>,
                            3)
               [] env.file = "ewrite" ->
                    ToolOut([b EXCEPT !.file = [exists |-> TRUE,
                                                data |-> <<>>],
                                      !.saved = NoTime],
                            <<Eff("file_write_error", "backlight", <<>>)>>, 3)

\* _state_file.unlink(), with the file left in place.
unlink_file_keep(f) == f

\* _state_file.unlink()
unlink_file(f) == Absent

\* restore_state(lg)
restore_state(b, env) ==
    LET state == from_bytes(b.file.data)
        gone == [b EXCEPT !.file = unlink_file(b.file),
                          !.saved = IF unlink_file(b.file).exists
                                    THEN b.saved ELSE NoTime]
        unlinked == <<Eff("file_unlink", "backlight", <<>>)>>
        max_state == read_int(b.max, env.readmax)
    IN  IF ~env.lookup THEN ToolOut(b, <<>>, 1)
        ELSE IF ~b.file.exists THEN ToolOut(b, <<>>, 0)
        ELSE IF env.file # "ok"
             THEN ToolOut(b, <<Eff("file_read_error", "backlight", <<>>)>>, 2)
        ELSE IF max_state.exc # NoExc THEN ToolOut(gone, unlinked, 3)
        ELSE LET wr == write_sysfs(gone, clamp(state, max_state.n), env)
             IN  ToolOut(wr.bl, unlinked \o wr.eff,
                         IF wr.ret # 0 THEN 4 ELSE 0)

\* set_powersave(lg)
set_powersave(b, env) ==
    IF ~env.lookup THEN ToolOut(b, <<>>, 1)
    ELSE LET wr == write_sysfs(b, powersave_value, env)
         IN  ToolOut(wr.bl, wr.eff, IF wr.ret # 0 THEN 2 ELSE 0)

NoToolCall ==
    [kind |-> "none", value |-> None, env |-> ToolQuiet,
     before |-> NoBacklight]

ToolIdle == call.kind = "none"

BrightnessInit ==
    /\ backlight \in [brightness : StartLevels, max : MaxLevels,
                      file : {Absent}, saved : {NoTime}]
    /\ call = NoToolCall
    /\ effects = <<>>
    /\ result = NoResult
    /\ slot = [s \in Slots |-> Absent]
    /\ prev = NoPress
    /\ procs = NoProcs

\* One run of the tool: the operation, its argument and what it came to.
ToolCalled(kind, value, env, r) ==
    /\ ToolIdle
    /\ call' = [kind |-> kind, value |-> value, env |-> env,
                before |-> backlight]
    /\ backlight' = r.bl
    /\ effects' = r.eff
    /\ result' = [exc |-> NoExc, code |-> r.code]
    /\ UNCHANGED <<slot, prev, procs>>

\* brightness --modify <value>
ToolModify ==
    \E value \in Modifiers, env \in ToolEnvs :
        ToolCalled("modify", value, env, modify_state(value, backlight, env))

\* brightness --save
ToolSave ==
    \E env \in ToolEnvs :
        ToolCalled("save", None, env, save_state(backlight, env))

\* brightness --restore
ToolRestore ==
    \E env \in ToolEnvs :
        ToolCalled("restore", None, env, restore_state(backlight, env))

\* brightness --powersave
ToolPowersave ==
    \E env \in ToolEnvs :
        ToolCalled("powersave", None, env, set_powersave(backlight, env))

\* The run ends.
ToolExit ==
    /\ ~ToolIdle
    /\ call' = NoToolCall
    /\ effects' = <<>>
    /\ result' = NoResult
    /\ UNCHANGED <<slot, prev, procs, backlight>>

BrightnessNext ==
    \/ ToolModify
    \/ ToolSave
    \/ ToolRestore
    \/ ToolPowersave
    \/ ToolExit

BrightnessSpec == BrightnessInit /\ [][BrightnessNext]_vars

\* The levels that the last run wrote to brightness.
Written ==
    {effects[i].data[1] :
        i \in {j \in 1..Len(effects) : effects[j].op = "sysfs_write"}}

ToolCall == call.kind \in {"modify", "save", "restore", "powersave"}

\* C29: every level that modify, restore and powersave write to brightness
\* lies in 0..max_brightness, whatever the current brightness, the modifier,
\* the stored snapshot and max_brightness are.
C29_WrittenLevelsInRange ==
    ToolCall => \A v \in Written : 0 <= v /\ v <= call.before.max

\* The snapshot that the last run found stands for a level saved by --save.
Snapshot == call.before.file.exists /\ call.before.saved # NoTime

\* C30: a restore that returns 0 after a save leaves brightness at the level
\* that was current at the save, clamped to 0..max_brightness, a saved level
\* of 0 included, and removes the state file; a restore that finds no state
\* file returns 0 and leaves brightness as it is.
C30_SaveThenRestore ==
    call.kind = "restore" =>
        /\ (Snapshot /\ Returned(0)) =>
              /\ backlight.brightness
                    = clamp(call.before.saved, call.before.max)
              /\ ~backlight.file.exists
        /\ (~call.before.file.exists /\ call.env.lookup) =>
              /\ Returned(0)
              /\ backlight = call.before
              /\ Written = {}

C30_Witness ==
    /\ call.kind = "restore"
    /\ Snapshot /\ Returned(0)
    /\ call.before.saved = 0
    /\ call.before.file.data = <<>>
    /\ call.before.brightness > 0
    /\ backlight.brightness = 0
    /\ ~backlight.file.exists

\* b is the shortest little-endian byte string of v: bytes only, as many of
\* them as bit_length(v) needs, none for 0, no zero byte at the high end,
\* and v again when decoded.
Minimal(b, v) ==
    /\ \A i \in 1..Len(b) : b[i] \in 0..255
    /\ 8 * Len(b) >= bit_length(v)
    /\ 8 * (Len(b) - 1) < bit_length(v) \/ Len(b) = 0
    /\ (Len(b) = 0) <=> (v = 0)
    /\ Len(b) > 0 => b[Len(b)] # 0
    /\ from_bytes(b) = v

\* The value that the last call set out to store: the time of the press or
\* the plug state.
Stored ==
    IF call.kind = "ac_adapter" THEN int(call.ev.identifier).n
    ELSE call.env.now

\* The slot writes of the last call.
SlotWrites == SelectSeq(effects, LAMBDA e : e.op = "slot_write")

\* The levels a backlight can be saved at, and the times of a press.
Storable ==
    {0, 1, SmallMax, powersave_value, LargeMax, 255, 256, 65535, 65536}
        \cup Times

\* C22: a slot holds its value v as the shortest little-endian byte string:
\* ceil(bit_length(v) / 8) bytes, no high-order zero byte, no byte at all
\* for 0, and decoding gives v back; the button slots, the adapter slot and
\* the state file of the brightness tool are all encoded alike.
C22_SlotEncodingIsMinimal ==
    /\ (call.kind \in {"button", "ac_adapter"}) =>
          \A i \in 1..Len(SlotWrites) :
              /\ Minimal(SlotWrites[i].data, Stored)
              /\ SlotWrites[i].data = state_bytes(Stored)
              /\ slot[SlotWrites[i].arg].data = SlotWrites[i].data
              /\ read_time(slot, SlotWrites[i].arg) = Stored
    /\ \A v \in Storable : Minimal(state_bytes(v), v)

C22_Witness ==
    /\ call.kind = "ac_adapter"
    /\ Stored = 0
    /\ Len(SlotWrites) = 1
    /\ SlotWrites[1].data = <<>>
    /\ slot[state_file] = [exists |-> TRUE, data |-> <<>>]
    /\ slot[state_power_button].exists
    /\ Len(slot[state_power_button].data) = 3
    /\ from_bytes(slot[state_power_button].data) = EpochMs + max_delay

====
